---- MODULE Spec2Model ----
(***************************************************************************)
(* Model of the .dbf decoding pipeline of src/src/reading.rs: Reader::new, *)
(* the Iterator implementation Reader::next, the eager Reader::read and    *)
(* the one-liner read.                                                     *)
(*                                                                         *)
(* The byte source is a file made of the fixed-size header, the 32-byte    *)
(* descriptor chunks that follow it, the byte after the last descriptor    *)
(* the header announces, and the remaining bytes.  Positions are byte      *)
(* offsets from the start of the file.  Header::read_from,                 *)
(* RecordFieldInfo::read_from and FieldValue::read_from are collaborators  *)
(* declared outside reading.rs; they are modelled from their contracts.    *)
(***************************************************************************)
EXTENDS Integers, Sequences, FiniteSets

(***************************************************************************)
(* Bounds of the model.                                                    *)
(***************************************************************************)
MaxRecords == 2
MaxFields == 2
MaxData == 4
MaxCalls == 4

(***************************************************************************)
(* Binary layout constants (Header::SIZE, RecordFieldInfo::SIZE, '\r').    *)
(***************************************************************************)
HeaderSIZE == 32
RecordFieldInfoSIZE == 32
Terminator == 13

\* A byte no field value decodes from, and the bytes that decode.
BadByte == 255
GoodBytes == {65, 66}
DataBytes == GoodBytes \cup {BadByte}
\* Terminator bytes tried: '\r', 0x1A and 0x00.
TermBytes == {Terminator, 26, 0}
\* End of file where a terminator byte is expected.
Eof == 0 - 1
\* Names an on-disk descriptor can carry (at most 11 bytes on disk).
FieldNames == {"NAME", "AGE"}
FieldLengths == {1, 2}

NoError == "none"
IoError == "IoError"
MalformedHeader == "MalformedHeader"
MalformedFieldDescriptor == "MalformedFieldDescriptor"
InvalidFieldData == "InvalidFieldData"
UnexpectedTerminator == "UnexpectedTerminator"

\* Record = HashMap<String, FieldValue>: a function from names to values.
EmptyRecord == [n \in {} |-> <<>>]

\* Insert with the record replaced by the new pair instead of extended.
InsertReplacing(record, name, value) == [n \in {name} |-> value]

\* HashMap::insert: the last write for a key wins.
Insert(record, name, value) ==
  [n \in (DOMAIN record) \cup {name} |-> IF n = name THEN value ELSE record[n]]

VARIABLES file, phase, header, fields_info, current_record, pos,
          newError, items, reads, readResult

vars == <<file, phase, header, fields_info, current_record, pos,
          newError, items, reads, readResult>>

(***************************************************************************)
(* Inputs.                                                                 *)
(***************************************************************************)
\* offset_to_first_record values tried: one below the fixed header size, the
\* fixed header size itself (no room for the terminator byte), one with a
\* byte between the terminator and the first record, and for every field
\* count the offset of the byte after the terminator.
Offsets ==
  {HeaderSIZE - 1, HeaderSIZE, HeaderSIZE + 2} \cup
  {HeaderSIZE + k * RecordFieldInfoSIZE + 1 : k \in 0..MaxFields}

NoHeader == [num_records |-> 0, offset_to_first_record |-> 0]

Headers == [num_records : 0..MaxRecords, offset_to_first_record : Offsets]

\* A 32-byte descriptor chunk: well formed with its name and length ("AGE" is
\* tried with one length only), or not.
Descriptors ==
  {d \in [ok : {TRUE}, name : FieldNames, record_length : FieldLengths] :
     d.name = "NAME" \/ d.record_length = 1}
BadDescriptor == [ok |-> FALSE, name |-> "", record_length |-> 0]

\* num_fields of line 40.
NumFields(h) == (h.offset_to_first_record - HeaderSIZE) \div RecordFieldInfoSIZE

\* A file.  short: the file ends inside the header.  descs: the descriptor
\* chunks present.  term: the byte after the descriptors the header
\* announces, Eof when the file ends before it.  data: the bytes after it.
\* header_bytes: the bytes of the file that belong to the header.
File(short, h, descs, term, data) ==
  [short |-> short, hdr |-> h, descs |-> descs, term |-> term, data |-> data,
   header_bytes |-> HeaderSIZE]

\* A file that ends after n bytes, inside the header, and the lengths tried.
ShortFile(n) ==
  [short |-> TRUE, hdr |-> NoHeader, descs |-> <<>>, term |-> Eof, data |-> <<>>,
   header_bytes |-> n]
ShortSizes == {0, 1, HeaderSIZE - 1}

\* The file ends inside the header, or the header's offset is too small.
InputNoTable(f) ==
  \/ \E n \in ShortSizes : f = ShortFile(n)
  \/ \E h \in Headers :
       /\ h.offset_to_first_record < HeaderSIZE
       /\ f = File(FALSE, h, <<>>, Eof, <<>>)

\* The file ends inside the descriptor table, or a descriptor is malformed
\* (nothing is read after either).
InputBadTable(f) ==
  \E h \in Headers :
    /\ h.offset_to_first_record >= HeaderSIZE
    /\ \E k \in 0..(NumFields(h) - 1) : \E d \in [1..k -> Descriptors] :
         \/ f = File(FALSE, h, d, Eof, <<>>)
         \/ f = File(FALSE, h, Append(d, BadDescriptor), Eof, <<>>)

\* Every announced descriptor is well formed; the byte after them is missing
\* or is not the terminator.
InputBadTerminator(f) ==
  \E h \in Headers :
    /\ h.offset_to_first_record >= HeaderSIZE
    /\ \E d \in [1..NumFields(h) -> Descriptors] :
         \E t \in (TermBytes \ {Terminator}) \cup {Eof} :
           f = File(FALSE, h, d, t, <<>>)

\* Header, descriptors and terminator are fine; any bytes follow.
InputWithData(f) ==
  \E h \in Headers :
    /\ h.offset_to_first_record >= HeaderSIZE
    /\ \E d \in [1..NumFields(h) -> Descriptors] :
         \E n \in 0..MaxData : \E b \in [1..n -> DataBytes] :
           f = File(FALSE, h, d, Terminator, b)

(***************************************************************************)
(* Collaborators.                                                          *)
(***************************************************************************)
\* Header::read_from handing on whatever offset the file holds.
HeaderReadFromUnchecked(f) ==
  IF f.short
    THEN [ok |-> FALSE, err |-> IoError, header |-> NoHeader,
          pos |-> f.header_bytes]
  ELSE [ok |-> TRUE, err |-> NoError, header |-> f.hdr, pos |-> HeaderSIZE]

\* Header::read_from: an I/O error on a short read; a malformed-header error
\* rather than a header whose offset is below the fixed header size.  pos:
\* where it leaves the source, the end of the file on a short read, else the
\* byte after the header.
HeaderReadFrom(f) ==
  IF f.short
    THEN [ok |-> FALSE, err |-> IoError, header |-> NoHeader,
          pos |-> f.header_bytes]
  ELSE IF f.hdr.offset_to_first_record < HeaderSIZE
       THEN [ok |-> FALSE, err |-> MalformedHeader, header |-> NoHeader,
             pos |-> HeaderSIZE]
       ELSE [ok |-> TRUE, err |-> NoError, header |-> f.hdr, pos |-> HeaderSIZE]

\* RecordFieldInfo::new_deletion_flag.
new_deletion_flag == [name |-> "DeletionFlag", record_length |-> 1]

\* RecordFieldInfo::read_from for the i-th descriptor chunk.  pos: where it
\* leaves the source, the end of the file when the chunk is missing, else
\* the byte after the chunk.
RecordFieldInfoReadFrom(f, i) ==
  IF i > Len(f.descs)
    THEN [ok |-> FALSE, err |-> IoError, info |-> new_deletion_flag,
          pos |-> HeaderSIZE + Len(f.descs) * RecordFieldInfoSIZE]
  ELSE IF ~f.descs[i].ok
    THEN [ok |-> FALSE, err |-> MalformedFieldDescriptor,
          info |-> new_deletion_flag,
          pos |-> HeaderSIZE + i * RecordFieldInfoSIZE]
  ELSE [ok |-> TRUE, err |-> NoError,
        info |-> [name |-> f.descs[i].name,
                  record_length |-> f.descs[i].record_length],
        pos |-> HeaderSIZE + i * RecordFieldInfoSIZE]

\* Position of the byte after the descriptor table, and of f.data[1].
TerminatorPos(nf) == HeaderSIZE + nf * RecordFieldInfoSIZE
DataStart(nf) == TerminatorPos(nf) + 1

\* The bytes of the file in [p, p + n), n >= 0, p >= start of data.
BytesAt(f, start, p, n) == SubSeq(f.data, p - start + 1, p - start + n)

\* FieldValue::read_from: consumes info.record_length bytes from position p;
\* an I/O error when the file ends before that, invalid field data when a
\* byte does not decode, else the value.
FieldValueReadFrom(f, start, p, info) ==
  LET n == info.record_length
      end == start + Len(f.data)
  IN IF p + n > end
       THEN [ok |-> FALSE, err |-> IoError, value |-> <<>>, pos |-> end]
     ELSE IF \E k \in 1..n : BytesAt(f, start, p, n)[k] = BadByte
       THEN [ok |-> FALSE, err |-> InvalidFieldData, value |-> <<>>, pos |-> p + n]
     ELSE [ok |-> TRUE, err |-> NoError, value |-> BytesAt(f, start, p, n),
           pos |-> p + n]

(***************************************************************************)
(* Reader::new (lines 38-61).                                              *)
(***************************************************************************)
\* One entry of the log of reads performed on the source: the read, the
\* position it starts at, its error; for an invocation of the field decoder
\* the descriptor it is given.
NoInfo == [name |-> "", record_length |-> 0]
ReadEntry(op, at, err) == [op |-> op, at |-> at, err |-> err, info |-> NoInfo]
FieldEntry(info, at, err) == [op |-> "field", at |-> at, err |-> err, info |-> info]

\* The terminator test accepting any byte.
TerminatorAny(terminator) == TRUE

\* Line 51: the terminator test.
TerminatorOk(terminator) == terminator = Terminator

\* The descriptor loop going on to the next descriptor after a failing read
\* instead of returning the failure.
RECURSIVE ReadDescriptorsSkipping(_, _, _, _, _)
ReadDescriptorsSkipping(f, i, nf, infos, log) ==
  IF i > nf
    THEN [ok |-> TRUE, err |-> NoError, infos |-> infos, log |-> log,
          pos |-> HeaderSIZE + nf * RecordFieldInfoSIZE]
  ELSE LET r == RecordFieldInfoReadFrom(f, i)
           at == HeaderSIZE + (i - 1) * RecordFieldInfoSIZE
           log2 == Append(log, ReadEntry("descriptor", at, r.err))
       IN ReadDescriptorsSkipping(f, i + 1, nf,
                                  IF r.ok THEN Append(infos, r.info) ELSE infos,
                                  log2)

\* Lines 44-48: the loop reading descriptors i..nf; stops at the first
\* failing read (the ? of line 45).
RECURSIVE ReadDescriptors(_, _, _, _, _)
ReadDescriptors(f, i, nf, infos, log) ==
  IF i > nf
    THEN [ok |-> TRUE, err |-> NoError, infos |-> infos, log |-> log,
          pos |-> HeaderSIZE + nf * RecordFieldInfoSIZE]
  ELSE LET r == RecordFieldInfoReadFrom(f, i)
           at == HeaderSIZE + (i - 1) * RecordFieldInfoSIZE
           log2 == Append(log, ReadEntry("descriptor", at, r.err))
       IN IF ~r.ok
            THEN [ok |-> FALSE, err |-> r.err, infos |-> infos, log |-> log2,
                  pos |-> r.pos]
            ELSE ReadDescriptors(f, i + 1, nf, Append(infos, r.info), log2)

\* The result of Reader::new on file f, with the position the source is
\* left at (after a failing read, where that read stopped): outcome "ok" (a
\* Reader), "err" (an
\* Err returned to the caller) or "panic" (line 52; or line 40 to 42 on a
\* header whose offset is below Header::SIZE: the usize subtraction panics
\* in a build with overflow checks and wraps in one without, where
\* Vec::with_capacity of the wrapped count panics).
NewResult(outcome, err, h, infos, p, log) ==
  [outcome |-> outcome, err |-> err, header |-> h, fields_info |-> infos,
   pos |-> p, reads |-> log]

ReaderNew(f) ==
  LET hr == HeaderReadFrom(f)
      log0 == <<ReadEntry("header", 0, hr.err)>>
  IN IF ~hr.ok THEN NewResult("err", hr.err, NoHeader, <<>>, hr.pos, log0)
     ELSE IF hr.header.offset_to_first_record < HeaderSIZE
       THEN NewResult("panic", NoError, NoHeader, <<>>, HeaderSIZE, log0)
     ELSE
       LET num_fields == NumFields(hr.header)
           dr == ReadDescriptors(f, 1, num_fields, <<new_deletion_flag>>, log0)
           tp == TerminatorPos(num_fields)
       IN IF ~dr.ok THEN NewResult("err", dr.err, NoHeader, <<>>, dr.pos, dr.log)
          ELSE IF f.term = Eof
            THEN NewResult("err", IoError, NoHeader, <<>>, tp,
                           Append(dr.log, ReadEntry("terminator", tp, IoError)))
          ELSE IF ~TerminatorOk(f.term)
            THEN NewResult("panic", NoError, NoHeader, <<>>, tp + 1,
                           Append(dr.log, ReadEntry("terminator", tp, NoError)))
          ELSE NewResult("ok", NoError, hr.header, dr.infos, tp + 1,
                         Append(dr.log, ReadEntry("terminator", tp, NoError)))

(***************************************************************************)
(* Reader::next (lines 89-107).                                            *)
(***************************************************************************)
NoneItem == [kind |-> "none", record |-> EmptyRecord, err |-> NoError]
ErrItem(e) == [kind |-> "err", record |-> EmptyRecord, err |-> e]
OkItem(record) == [kind |-> "ok", record |-> record, err |-> NoError]

\* The end-of-sequence test off by one (> for >=).
ExhaustedLate(cur, h) == cur > h.num_records

\* Line 90: the end-of-sequence test.
Exhausted(cur, h) == cur >= h.num_records

\* No descriptor filtered out of the record.
SurfacedAll(field_info) == TRUE

\* Line 100: the descriptors whose value goes into the record.
Surfaced(field_info) == field_info.name # "DeletionFlag"

\* The cursor advanced by two.
AdvanceTwice(cur) == cur + 2

\* Line 104.
Advance(cur) == cur + 1

\* The field loop going on to the next descriptor after a failing decode,
\* the failure dropped.
RECURSIVE ReadFieldsSwallowing(_, _, _, _, _, _, _)
ReadFieldsSwallowing(f, start, infos, i, p, record, log) ==
  IF i > Len(infos)
    THEN [ok |-> TRUE, err |-> NoError, record |-> record, pos |-> p, log |-> log]
  ELSE LET r == FieldValueReadFrom(f, start, p, infos[i])
           log2 == Append(log, FieldEntry(infos[i], p, r.err))
       IN ReadFieldsSwallowing(f, start, infos, i + 1, r.pos,
                               IF r.ok /\ Surfaced(infos[i])
                                 THEN Insert(record, infos[i].name, r.value)
                                 ELSE record,
                               log2)

\* Lines 94-103: the loop over fields_info from entry i on, reading from
\* position p; returns at the first failing decode (line 96).
RECURSIVE ReadFields(_, _, _, _, _, _, _)
ReadFields(f, start, infos, i, p, record, log) ==
  IF i > Len(infos)
    THEN [ok |-> TRUE, err |-> NoError, record |-> record, pos |-> p, log |-> log]
  ELSE LET r == FieldValueReadFrom(f, start, p, infos[i])
           log2 == Append(log, FieldEntry(infos[i], p, r.err))
       IN IF ~r.ok
            THEN [ok |-> FALSE, err |-> r.err, record |-> EmptyRecord,
                  pos |-> r.pos, log |-> log2]
            ELSE ReadFields(f, start, infos, i + 1, r.pos,
                            IF Surfaced(infos[i])
                              THEN Insert(record, infos[i].name, r.value)
                              ELSE record,
                            log2)

\* next starting its field loop at the first on-disk descriptor, the
\* deletion-flag byte not decoded.
ReaderNextSkippingFlag(f, h, infos, cur, p) ==
  IF Exhausted(cur, h)
    THEN [item |-> NoneItem, current_record |-> cur, pos |-> p, log |-> <<>>]
  ELSE LET r == ReadFields(f, DataStart(Len(infos) - 1), infos, 2, p,
                           EmptyRecord, <<>>)
       IN IF ~r.ok
            THEN [item |-> ErrItem(r.err), current_record |-> cur,
                  pos |-> r.pos, log |-> r.log]
            ELSE [item |-> OkItem(r.record), current_record |-> Advance(cur),
                  pos |-> r.pos, log |-> r.log]

\* next advancing the cursor on a failed decode as well.
ReaderNextCountingFailures(f, h, infos, cur, p) ==
  IF Exhausted(cur, h)
    THEN [item |-> NoneItem, current_record |-> cur, pos |-> p, log |-> <<>>]
  ELSE LET r == ReadFields(f, DataStart(Len(infos) - 1), infos, 1, p,
                           EmptyRecord, <<>>)
       IN IF ~r.ok
            THEN [item |-> ErrItem(r.err), current_record |-> Advance(cur),
                  pos |-> r.pos, log |-> r.log]
            ELSE [item |-> OkItem(r.record), current_record |-> Advance(cur),
                  pos |-> r.pos, log |-> r.log]

\* next reading one more byte when it reports end-of-sequence (a look at
\* the end-of-file marker).
ReaderNextProbing(f, h, infos, cur, p) ==
  IF Exhausted(cur, h)
    THEN [item |-> NoneItem, current_record |-> cur, pos |-> p + 1,
          log |-> <<FieldEntry(new_deletion_flag, p, NoError)>>]
  ELSE LET r == ReadFields(f, DataStart(Len(infos) - 1), infos, 1, p,
                           EmptyRecord, <<>>)
       IN IF ~r.ok
            THEN [item |-> ErrItem(r.err), current_record |-> cur,
                  pos |-> r.pos, log |-> r.log]
            ELSE [item |-> OkItem(r.record), current_record |-> Advance(cur),
                  pos |-> r.pos, log |-> r.log]

\* next decoding from the first record again on every call.
ReaderNextRewinding(f, h, infos, cur, p) ==
  IF Exhausted(cur, h)
    THEN [item |-> NoneItem, current_record |-> cur, pos |-> p, log |-> <<>>]
  ELSE LET r == ReadFields(f, DataStart(Len(infos) - 1), infos, 1,
                           DataStart(Len(infos) - 1), EmptyRecord, <<>>)
       IN IF ~r.ok
            THEN [item |-> ErrItem(r.err), current_record |-> cur,
                  pos |-> r.pos, log |-> r.log]
            ELSE [item |-> OkItem(r.record), current_record |-> Advance(cur),
                  pos |-> r.pos, log |-> r.log]

\* next resetting the cursor when it reports end-of-sequence.
ReaderNextResetting(f, h, infos, cur, p) ==
  IF Exhausted(cur, h)
    THEN [item |-> NoneItem, current_record |-> 0, pos |-> p, log |-> <<>>]
  ELSE LET r == ReadFields(f, DataStart(Len(infos) - 1), infos, 1, p,
                           EmptyRecord, <<>>)
       IN IF ~r.ok
            THEN [item |-> ErrItem(r.err), current_record |-> cur,
                  pos |-> r.pos, log |-> r.log]
            ELSE [item |-> OkItem(r.record), current_record |-> Advance(cur),
                  pos |-> r.pos, log |-> r.log]

\* One call of next on the reader (h, infos, cur, p) over file f: the item
\* returned, the reader's cursor and position after it, the reads it made.
ReaderNext(f, h, infos, cur, p) ==
  IF Exhausted(cur, h)
    THEN [item |-> NoneItem, current_record |-> cur, pos |-> p, log |-> <<>>]
  ELSE LET r == ReadFields(f, DataStart(Len(infos) - 1), infos, 1, p,
                           EmptyRecord, <<>>)
       IN IF ~r.ok
            THEN [item |-> ErrItem(r.err), current_record |-> cur,
                  pos |-> r.pos, log |-> r.log]
            ELSE [item |-> OkItem(r.record), current_record |-> Advance(cur),
                  pos |-> r.pos, log |-> r.log]

(***************************************************************************)
(* Reader::read (lines 75-82) and read (lines 118-122).                    *)
(***************************************************************************)
NoResult == [kind |-> "none", records |-> <<>>, err |-> NoError, pulled |-> <<>>]

\* The loop of read returning the records pushed so far when an item is a
\* failure.
RECURSIVE ReadLoopPartial(_, _, _, _, _, _, _, _)
ReadLoopPartial(f, h, infos, cur, p, records, pulled, log) ==
  LET n == ReaderNext(f, h, infos, cur, p)
      pulled2 == Append(pulled, n.item)
      log2 == log \o n.log
  IN IF n.item.kind # "ok"
       THEN [result |-> [kind |-> "ok", records |-> records, err |-> NoError,
                         pulled |-> pulled2],
             current_record |-> n.current_record, pos |-> n.pos, log |-> log2]
     ELSE ReadLoopPartial(f, h, infos, n.current_record, n.pos,
                          Append(records, n.item.record), pulled2, log2)

\* Line 78: push the record of a success item; the ? returns a failure item.
\* Lines 77-81: the for loop over the reader, from cursor cur and position p,
\* with the records pushed and the items pulled so far.
RECURSIVE ReadLoop(_, _, _, _, _, _, _, _)
ReadLoop(f, h, infos, cur, p, records, pulled, log) ==
  LET n == ReaderNext(f, h, infos, cur, p)
      pulled2 == Append(pulled, n.item)
      log2 == log \o n.log
  IN IF n.item.kind = "none"
       THEN [result |-> [kind |-> "ok", records |-> records, err |-> NoError,
                         pulled |-> pulled2],
             current_record |-> n.current_record, pos |-> n.pos, log |-> log2]
     ELSE IF n.item.kind = "err"
       THEN [result |-> [kind |-> "err", records |-> <<>>, err |-> n.item.err,
                         pulled |-> pulled2],
             current_record |-> n.current_record, pos |-> n.pos, log |-> log2]
     ELSE ReadLoop(f, h, infos, n.current_record, n.pos,
                   Append(records, n.item.record), pulled2, log2)

ReaderRead(f, h, infos, cur, p) == ReadLoop(f, h, infos, cur, p, <<>>, <<>>, <<>>)

(***************************************************************************)
(* The state machine.                                                      *)
(***************************************************************************)
Init ==
  /\ \/ InputNoTable(file)
     \/ InputBadTable(file)
     \/ InputBadTerminator(file)
     \/ InputWithData(file)
  /\ phase = "start"
  /\ header = NoHeader
  /\ fields_info = <<>>
  /\ current_record = 0
  /\ pos = 0
  /\ newError = NoError
  /\ items = <<>>
  /\ reads = <<>>
  /\ readResult = NoResult

PhaseOf(outcome) ==
  IF outcome = "ok" THEN "ready"
  ELSE IF outcome = "err" THEN "failed" ELSE "panicked"

\* Reader::new(source).
New ==
  /\ phase = "start"
  /\ LET r == ReaderNew(file)
     IN /\ phase' = PhaseOf(r.outcome)
        /\ header' = r.header
        /\ fields_info' = r.fields_info
        /\ pos' = r.pos
        /\ newError' = r.err
        /\ reads' = r.reads
  /\ current_record' = 0
  /\ UNCHANGED <<file, items, readResult>>

\* reader.next() counting the records left down in the header instead of
\* counting the records yielded up in the cursor.
NextCountingDown_ ==
  /\ phase = "ready"
  /\ Len(items) < MaxCalls
  /\ LET n == ReaderNext(file, header, fields_info, 0, pos)
     IN /\ items' = Append(items, n.item)
        /\ header' = [header EXCEPT !.num_records = @ - n.current_record]
        /\ pos' = n.pos
        /\ reads' = reads \o n.log
  /\ UNCHANGED <<file, phase, current_record, fields_info, newError, readResult>>

\* reader.next().
Next_ ==
  /\ phase = "ready"
  /\ Len(items) < MaxCalls
  /\ LET n == ReaderNext(file, header, fields_info, current_record, pos)
     IN /\ items' = Append(items, n.item)
        /\ current_record' = n.current_record
        /\ pos' = n.pos
        /\ reads' = reads \o n.log
  /\ UNCHANGED <<file, phase, header, fields_info, newError, readResult>>

\* reader.read(): consumes the reader.
Read ==
  /\ phase = "ready"
  /\ LET r == ReaderRead(file, header, fields_info, current_record, pos)
     IN /\ readResult' = r.result
        /\ items' = items \o r.result.pulled
        /\ current_record' = r.current_record
        /\ pos' = r.pos
        /\ reads' = reads \o r.log
  /\ phase' = "consumed"
  /\ UNCHANGED <<file, header, fields_info, newError>>

\* Line 119: File::open(path)? fails; read returns the error, nothing is
\* read and Reader::new is not called.
ReadUnopened ==
  /\ phase' = "unopened"
  /\ readResult' = [kind |-> "err", records |-> <<>>, err |-> IoError,
                    pulled |-> <<>>]
  /\ UNCHANGED <<header, fields_info, current_record, pos, newError, items,
                 reads>>

\* read(path): File::open(path)?, Reader::new(f)?, then reader.read().
read ==
  /\ phase = "start"
  /\ \/ ReadUnopened
     \/ LET c == ReaderNew(file)
            r == ReaderRead(file, c.header, c.fields_info, 0, c.pos)
        IN IF c.outcome = "ok"
             THEN /\ phase' = "consumed"
                  /\ header' = c.header
                  /\ fields_info' = c.fields_info
                  /\ newError' = NoError
                  /\ readResult' = r.result
                  /\ items' = r.result.pulled
                  /\ current_record' = r.current_record
                  /\ pos' = r.pos
                  /\ reads' = c.reads \o r.log
             ELSE /\ phase' = PhaseOf(c.outcome)
                  /\ header' = c.header
                  /\ fields_info' = c.fields_info
                  /\ newError' = c.err
                  /\ readResult' = IF c.outcome = "err"
                                     THEN [kind |-> "err", records |-> <<>>,
                                           err |-> c.err, pulled |-> <<>>]
                                     ELSE NoResult
                  /\ items' = <<>>
                  /\ current_record' = 0
                  /\ pos' = c.pos
                  /\ reads' = c.reads
  /\ UNCHANGED file

Next == New \/ Next_ \/ Read \/ read

Spec == Init /\ [][Next]_vars

(***************************************************************************)
(* Vocabulary of the properties, stated on the file and on the logs.       *)
(***************************************************************************)
\* The reader exists (Reader::new returned Ok); read() has or has not run.
Constructed == phase \in {"ready", "consumed"}

\* The on-disk field count, names and the byte length of one on-disk record.
OnDiskFields == Len(file.descs)
OnDiskNames == {file.descs[i].name : i \in 1..OnDiskFields}

RECURSIVE SumLengths(_, _)
SumLengths(descs, n) ==
  IF n = 0 THEN 0 ELSE descs[n].record_length + SumLengths(descs, n - 1)

RecordSize == 1 + SumLengths(file.descs, OnDiskFields)

\* Position of the first byte after the terminator byte.
FirstRecordPos == HeaderSIZE + OnDiskFields * RecordFieldInfoSIZE + 1

\* The byte of the file at position p, for p inside the data.
ByteAt(p) == file.data[p - FirstRecordPos + 1]

\* The record the bytes at [p, p + RecordSize) stand for: the byte at p is the
\* deletion flag, field i follows the fields before it, and of two fields of
\* one name the later one is kept.
ExpectedRecord(p) ==
  [n \in OnDiskNames |->
     LET i == CHOOSE j \in 1..OnDiskFields :
                /\ file.descs[j].name = n
                /\ \A l \in (j + 1)..OnDiskFields : file.descs[l].name # n
         from == p + 1 + SumLengths(file.descs, i - 1)
     IN [b \in 1..file.descs[i].record_length |-> ByteAt(from + b - 1)]]

\* Header, descriptor table and terminator are as the format wants them, and
\* num_records complete records follow, every byte of which decodes.
WellFormed ==
  /\ ~file.short
  /\ file.hdr.offset_to_first_record = FirstRecordPos
  /\ \A i \in 1..OnDiskFields : file.descs[i].ok
  /\ file.term = Terminator
  /\ Len(file.data) >= file.hdr.num_records * RecordSize
  /\ \A b \in 1..(file.hdr.num_records * RecordSize) : file.data[b] # BadByte

OkItems == SelectSeq(items, LAMBDA it : it.kind = "ok")
FieldReads == SelectSeq(reads, LAMBDA r : r.op = "field")

(***************************************************************************)
(* Properties.                                                             *)
(***************************************************************************)
\* C1: on a well-formed input the calls of next before the first
\* end-of-sequence are exactly num_records, all of them successes: call k
\* returns a record for k <= num_records, and call num_records + 1 is the
\* first to return end-of-sequence.
C1_ExactCount ==
  WellFormed =>
    \A k \in 1..Len(items) :
      (\A j \in 1..(k - 1) : items[j].kind # "none") =>
        items[k].kind = IF k <= file.hdr.num_records THEN "ok" ELSE "none"

C1_Witness ==
  /\ WellFormed
  /\ file.hdr.num_records = 2
  /\ OnDiskFields = 1
  /\ Len(items) = 3
  /\ items[3].kind = "none"
  /\ Len(OkItems) = 2

\* C2 as stated: the k-th success item is the record at
\* offset_to_first_record + (k - 1) * record size, whatever came before it.
C2_Original ==
  Constructed =>
    \A k \in 1..Len(OkItems) :
      /\ k <= file.hdr.num_records
      /\ file.hdr.offset_to_first_record + k * RecordSize
           <= FirstRecordPos + Len(file.data)
      /\ (OnDiskFields > 0 =>
            OkItems[k].record =
              ExpectedRecord(file.hdr.offset_to_first_record + (k - 1) * RecordSize))

\* C2 amended: as long as no call of next has returned a failure, the k-th
\* item is the record at FirstRecordPos + (k - 1) * record size, the bytes
\* right after the terminator being the first record.
C2_InOrder ==
  Constructed =>
    \A k \in 1..Len(items) :
      (\A j \in 1..k : items[j].kind = "ok") =>
        /\ k <= file.hdr.num_records
        /\ k * RecordSize <= Len(file.data)
        /\ items[k].record = ExpectedRecord(FirstRecordPos + (k - 1) * RecordSize)

C2_Witness ==
  /\ Constructed
  /\ OnDiskFields >= 1
  /\ Len(items) >= 2
  /\ items[1].kind = "ok"
  /\ items[2].kind = "ok"
  /\ items[1].record # items[2].record

\* C3: once Reader::new has succeeded, fields_info has one entry more than
\* there are on-disk descriptors, its first entry is the deletion-flag
\* descriptor, and no record yielded has the key "DeletionFlag".
C3_DeletionFlag ==
  Constructed =>
    /\ Len(fields_info) = NumFields(file.hdr) + 1
    /\ Len(fields_info) = OnDiskFields + 1
    /\ fields_info[1] = new_deletion_flag
    /\ \A k \in 1..Len(items) :
         items[k].kind = "ok" => "DeletionFlag" \notin DOMAIN items[k].record
    /\ \A k \in 1..Len(readResult.records) :
         "DeletionFlag" \notin DOMAIN readResult.records[k]

C3_Witness ==
  /\ Constructed
  /\ Len(fields_info) = 3
  /\ Len(OkItems) >= 1
  /\ DOMAIN OkItems[1].record # {}

\* C4: the keys of every record yielded are exactly the names of the
\* on-disk descriptors.
C4_KeySet ==
  /\ \A k \in 1..Len(items) :
       items[k].kind = "ok" => DOMAIN items[k].record = OnDiskNames
  /\ \A k \in 1..Len(readResult.records) :
       DOMAIN readResult.records[k] = OnDiskNames

C4_Witness ==
  /\ OnDiskFields = 1
  /\ file.descs[1].name = "NAME"
  /\ file.hdr.num_records = 1
  /\ Len(items) >= 1
  /\ items[1].kind = "ok"
  /\ DOMAIN items[1].record = {"NAME"}
  /\ items[1].record["NAME"] = <<file.data[2]>>

\* C5: after a call of next has returned end-of-sequence, every later call
\* returns end-of-sequence.
C5_EndIdempotent ==
  \A i \in 1..Len(items) : \A j \in i..Len(items) :
    items[i].kind = "none" => items[j].kind = "none"

C5_Witness ==
  /\ Len(items) >= 3
  /\ items[Len(items) - 2].kind = "ok"
  /\ items[Len(items) - 1].kind = "none"
  /\ items[Len(items)].kind = "none"
  /\ Len(file.data) > Len(OkItems) * RecordSize

\* Reader::new has been called: the run has started and the file was opened.
NewCalled == phase \notin {"start", "unopened"}

\* The byte after the descriptor table is there and is not 0x0D.
WrongTerminator ==
  /\ ~file.short
  /\ file.hdr.offset_to_first_record >= HeaderSIZE
  /\ OnDiskFields = NumFields(file.hdr)
  /\ \A i \in 1..OnDiskFields : file.descs[i].ok
  /\ file.term \in TermBytes \ {Terminator}

\* C6: when the byte after the descriptor table is not 0x0D, no run gets a
\* Reader out of Reader::new, and none decodes a field or yields an item.
C6_NoReaderOnBadTerminator ==
  WrongTerminator =>
    /\ ~Constructed
    /\ FieldReads = <<>>
    /\ items = <<>>
    /\ readResult.records = <<>>
    /\ (NewCalled =>
          /\ Len(reads) = OnDiskFields + 2
          /\ reads[Len(reads)] =
               ReadEntry("terminator", FirstRecordPos - 1, NoError))

C6_Witness ==
  /\ WrongTerminator
  /\ phase = "panicked"
  /\ OnDiskFields = 2
  /\ file.hdr.num_records > 0

\* C7: a terminator byte other than 0x0D makes Reader::new return an
\* UnexpectedTerminator error to its caller; it never panics.
C7_TerminatorIsError ==
  (WrongTerminator /\ NewCalled) =>
    /\ phase = "failed"
    /\ newError = UnexpectedTerminator

\* The items a run of read() pulled are the last ones of the log; those
\* before them came from calls of next made before read().
ItemsBeforeRead == SubSeq(items, 1, Len(items) - Len(readResult.pulled))
YieldedBeforeRead ==
  Len(SelectSeq(ItemsBeforeRead, LAMBDA it : it.kind = "ok"))

\* What read() does whatever the reader's cursor: it pulls items until the
\* first that is not a success; Ok holds the records pulled, in order, and
\* ends on end-of-sequence; Err holds the failure pulled last and no record.
ReadPullsInOrder ==
  LET pulled == readResult.pulled
      last == Len(pulled)
  IN /\ last >= 1
     /\ \A k \in 1..(last - 1) : pulled[k].kind = "ok"
     /\ items = ItemsBeforeRead \o pulled
     /\ readResult.kind = "ok" =>
          /\ pulled[last].kind = "none"
          /\ Len(readResult.records) = last - 1
          /\ \A k \in 1..(last - 1) : readResult.records[k] = pulled[k].record
     /\ readResult.kind = "err" =>
          /\ pulled[last].kind = "err"
          /\ readResult.err = pulled[last].err
          /\ readResult.records = <<>>

\* C8 as stated: a successful read() returns exactly num_records records.
C8_Original ==
  phase = "consumed" =>
    /\ ReadPullsInOrder
    /\ readResult.kind = "ok" =>
         Len(readResult.records) = file.hdr.num_records

\* C8 amended: a successful read() returns exactly the records not yet
\* yielded, num_records minus the successes next returned before read() was
\* called; that is num_records when read() is the first to pull.
C8_ReadRemaining ==
  phase = "consumed" =>
    /\ ReadPullsInOrder
    /\ readResult.kind = "ok" =>
         /\ Len(readResult.records) = file.hdr.num_records - YieldedBeforeRead
         /\ (ItemsBeforeRead = <<>> =>
               Len(readResult.records) = file.hdr.num_records)

C8_Witness ==
  /\ phase = "consumed"
  /\ readResult.kind = "err"
  /\ Len(readResult.pulled) = 2
  /\ Len(file.data) > 2 * RecordSize
  /\ ItemsBeforeRead = <<>>

\* C9: with num_records = 0 every call of next returns end-of-sequence, the
\* field decoder is never invoked, and read() returns Ok of no record.
C9_ZeroRecords ==
  (Constructed /\ file.hdr.num_records = 0) =>
    /\ \A k \in 1..Len(items) : items[k] = NoneItem
    /\ FieldReads = <<>>
    /\ pos = FirstRecordPos
    /\ (phase = "consumed" =>
          /\ readResult.kind = "ok"
          /\ readResult.records = <<>>)

C9_Witness ==
  /\ phase = "consumed"
  /\ file.hdr.num_records = 0
  /\ Len(items) >= 2
  /\ Len(file.data) >= RecordSize
  /\ file.data[1] # BadByte

\* The read of Reader::new that fails while parsing: 1 for the header, 1 + i
\* for descriptor i (malformed, or missing as the file ends before it),
\* num_fields + 2 for a missing terminator byte; 0 when none.
FailingRead ==
  IF file.short \/ file.hdr.offset_to_first_record < HeaderSIZE THEN 1
  ELSE IF \E i \in 1..OnDiskFields : ~file.descs[i].ok
    THEN 1 + CHOOSE i \in 1..OnDiskFields : ~file.descs[i].ok
  ELSE IF OnDiskFields < NumFields(file.hdr) THEN OnDiskFields + 2
  ELSE IF file.term = Eof THEN OnDiskFields + 2
  ELSE 0

\* The error of that read.
FailingError ==
  IF file.short THEN IoError
  ELSE IF file.hdr.offset_to_first_record < HeaderSIZE THEN MalformedHeader
  ELSE IF \E i \in 1..OnDiskFields : ~file.descs[i].ok
    THEN MalformedFieldDescriptor
  ELSE IoError

\* C10: when the header read, a descriptor read or the terminator read
\* fails, Reader::new returns the error of that read, no Reader exists, and
\* the failing read is the last read made on the source.
C10_ConstructionFails ==
  (FailingRead > 0 /\ NewCalled) =>
    /\ phase = "failed"
    /\ newError = FailingError
    /\ Len(reads) = FailingRead
    /\ reads[FailingRead].err = FailingError
    /\ \A k \in 1..(FailingRead - 1) : reads[k].err = NoError
    /\ fields_info = <<>>
    /\ items = <<>>

C10_Witness ==
  /\ phase = "failed"
  /\ NumFields(file.hdr) = 2
  /\ OnDiskFields = 1
  /\ ~file.descs[1].ok
  /\ newError = MalformedFieldDescriptor
  /\ Len(reads) = 2

\* A step that is one call of next on the reader, the item it returned and
\* the reads it made on the source.
NextCall ==
  /\ phase = "ready"
  /\ phase' = "ready"
  /\ Len(items') = Len(items) + 1
ItemReturned == items'[Len(items')]
ReadsMade == SubSeq(reads', Len(reads) + 1, Len(reads'))

\* C11: a call of next in which a field decode fails returns that failure as
\* its item and only then: the failing decode is the last read of the call,
\* the descriptors after it are not decoded, none is decoded twice, and the
\* item of a call without a failing decode is not a failure.
C11_FailureIsItem ==
  [][NextCall =>
       /\ \A k \in 1..Len(ReadsMade) :
            /\ ReadsMade[k].op = "field"
            /\ k <= Len(fields_info)
            /\ ReadsMade[k].info = fields_info[k]
            /\ ReadsMade[k].err # NoError =>
                 /\ k = Len(ReadsMade)
                 /\ ItemReturned = ErrItem(ReadsMade[k].err)
       /\ ItemReturned.kind = "err" =>
            /\ ReadsMade # <<>>
            /\ ReadsMade[Len(ReadsMade)].err = ItemReturned.err
            /\ ItemReturned.err # NoError
     ]_vars

C11_Witness ==
  /\ phase = "ready"
  /\ Len(items) = 1
  /\ items[1] = ErrItem(InvalidFieldData)
  /\ Len(fields_info) = 3
  /\ Len(FieldReads) = 2
  /\ Len(file.data) >= RecordSize

\* C12: when Reader::new has returned a Reader, the bytes it consumed are
\* offset_to_first_record: the source stands at the first byte of the first
\* record the header announces.
C12_PositionedAtFirstRecord ==
  (phase = "ready" /\ items = <<>>) =>
    /\ pos = HeaderSIZE + NumFields(header) * RecordFieldInfoSIZE + 1
    /\ pos = header.offset_to_first_record

\* C14: current_record is 0 when the Reader is built, is at every moment the
\* number of success items next has returned, lies in 0..num_records (so
\* inside u32, as num_records is a u32), and a step changes it by the number of success items the
\* step returned: by 1 on a call of next that returns a record, by 0 on any
\* other call, never downwards.
C14_Cursor ==
  [][/\ (phase = "start" /\ phase' = "ready") => current_record' = 0
     /\ current_record' = Len(SelectSeq(items', LAMBDA it : it.kind = "ok"))
     /\ current_record' >= current_record
     /\ current_record' >= 0
     /\ current_record' <= header'.num_records
     /\ NextCall =>
          current_record' =
            current_record + (IF ItemReturned.kind = "ok" THEN 1 ELSE 0)
    ]_vars

C14_Witness ==
  /\ phase = "ready"
  /\ header.num_records = 2
  /\ current_record = 2
  /\ Len(items) = 4
  /\ items[2].kind = "err"
  /\ items[4].kind = "none"

\* The invocations of the field decoder in a log of reads.
Decodes(log) == SelectSeq(log, LAMBDA r : r.op = "field")

\* C15: a call of next that returns a record invokes the field decoder once
\* per entry of fields_info, in table order from the deletion-flag entry on,
\* each at the byte the one before stopped at, and moves the source by 1 +
\* the lengths of the on-disk fields; a call that returns end-of-sequence
\* invokes it not at all, one that returns a failure on a prefix of the
\* table; Reader::new invokes it not at all, and there are at no moment more
\* invocations than the calls of next made account for.
C15_DecoderProtocol ==
  [][/\ (phase = "start" /\ phase' # "consumed") => Decodes(reads') = <<>>
     /\ Len(Decodes(reads')) <=
          Len(fields_info') * Len(SelectSeq(items', LAMBDA it : it.kind # "none"))
     /\ Len(Decodes(reads')) >=
          Len(fields_info') * Len(SelectSeq(items', LAMBDA it : it.kind = "ok"))
     /\ NextCall =>
          /\ \A k \in 1..Len(ReadsMade) :
               /\ k <= Len(fields_info)
               /\ ReadsMade[k].op = "field"
               /\ ReadsMade[k].info = fields_info[k]
               /\ ReadsMade[k].at = pos + SumLengths(fields_info, k - 1)
          /\ ItemReturned.kind = "none" => ReadsMade = <<>>
          /\ ItemReturned.kind = "err" => Len(ReadsMade) >= 1
          /\ ItemReturned.kind = "ok" =>
               /\ Len(ReadsMade) = Len(fields_info)
               /\ ReadsMade[1].info = new_deletion_flag
               /\ pos' = pos + 1 + SumLengths(file.descs, OnDiskFields)
    ]_vars

C15_Witness ==
  /\ phase = "ready"
  /\ Len(items) = 1
  /\ items[1].kind = "ok"
  /\ Len(fields_info) = 3
  /\ Len(FieldReads) = 3
  /\ FieldReads[1].info = new_deletion_flag
  /\ pos = FirstRecordPos + RecordSize

\* Reader::new went on after Header::read_from: the header read is logged
\* without an error.
HeaderAccepted == Len(reads) >= 1 /\ reads[1].err = NoError

\* C16: whenever Reader::new goes on with a header, offset_to_first_record -
\* Header::SIZE is not negative, num_fields is a count, and the panic of the
\* wrapped subtraction is not met: a panic comes after the terminator read.
C16_NoUnderflow ==
  HeaderAccepted =>
    /\ file.hdr.offset_to_first_record - HeaderSIZE >= 0
    /\ NumFields(file.hdr) >= 0
    /\ (phase = "panicked" => reads[Len(reads)].op = "terminator")

C16_Witness ==
  /\ phase = "failed"
  /\ ~file.short
  /\ file.hdr.offset_to_first_record = HeaderSIZE - 1
  /\ newError = MalformedHeader
  /\ Len(reads) = 1

\* C17: once the Reader is built, no step changes header or fields_info,
\* whatever next returns; they are the header read from the file and the
\* table built from it.
C17_Immutable ==
  [][Constructed =>
       /\ header' = header
       /\ fields_info' = fields_info
       /\ header' = file.hdr
       /\ Len(fields_info') = OnDiskFields + 1
    ]_vars

C17_Witness ==
  /\ phase = "consumed"
  /\ header.num_records = 1
  /\ Len(fields_info) = 3
  /\ Len(items) = 3
  /\ items[1].kind = "err"
  /\ items[2].kind = "ok"
  /\ items[3].kind = "none"

\* C18: a call of next that returns a failure leaves current_record as it
\* was, below num_records, and the reader usable; every call that is not at
\* the end, after a failure too, starts by decoding the deletion-flag entry
\* at the byte the source stands at; and the success items never outnumber
\* num_records.
C18_FailureKeepsCursor ==
  [][/\ NextCall =>
          /\ ItemReturned.kind = "err" =>
               /\ current_record' = current_record
               /\ current_record' < header'.num_records
               /\ ~Exhausted(current_record', header')
          /\ ItemReturned.kind # "none" =>
               /\ ReadsMade # <<>>
               /\ ReadsMade[1].info = fields_info[1]
               /\ ReadsMade[1].info = new_deletion_flag
               /\ ReadsMade[1].at = pos
     /\ Len(SelectSeq(items', LAMBDA it : it.kind = "ok")) <= file.hdr.num_records
    ]_vars

C18_Witness ==
  /\ phase = "ready"
  /\ header.num_records = 1
  /\ Len(items) = 3
  /\ items[1].kind = "err"
  /\ items[2].kind = "ok"
  /\ items[3].kind = "none"
  /\ OnDiskFields >= 1

\* The position after the last record the header announces, and the reads
\* of a log that take a byte of the file at or after it.
LastRecordEnd == FirstRecordPos + file.hdr.num_records * RecordSize
FileEnd == FirstRecordPos + Len(file.data)
ReadsPastLastRecord(log) ==
  SelectSeq(log, LAMBDA r :
    /\ r.op = "field"
    /\ r.at < FileEnd
    /\ r.at + r.info.record_length > LastRecordEnd)

\* A step taken by a reader at the end of the sequence changes nothing of
\* the reader and reads nothing; if it is a call of next it returns
\* end-of-sequence.
ExhaustedStepIsInert ==
  (phase = "ready" /\ current_record >= header.num_records) =>
    /\ pos' = pos
    /\ reads' = reads
    /\ current_record' = current_record
    /\ header' = header
    /\ fields_info' = fields_info
    /\ Len(items') = Len(items) + 1
    /\ ItemReturned = NoneItem

\* C19 as stated: a call of next at the end of the sequence reads nothing
\* and changes nothing, and no byte after the last declared record is ever
\* read.
C19_Original ==
  [][/\ ExhaustedStepIsInert
     /\ ReadsPastLastRecord(reads') = <<>>
    ]_vars

\* C19 amended: a call of next at the end of the sequence reads nothing and
\* changes nothing; as long as no call has returned a failure, no byte after
\* the last declared record is ever read.
C19_ExhaustedReadsNothing ==
  [][/\ ExhaustedStepIsInert
     /\ (\A k \in 1..Len(items') : items'[k].kind # "err") =>
          ReadsPastLastRecord(reads') = <<>>
    ]_vars

C19_Witness ==
  /\ phase = "ready"
  /\ header.num_records = 1
  /\ current_record = 1
  /\ Len(items) = 3
  /\ items[2] = NoneItem
  /\ items[3] = NoneItem
  /\ pos = LastRecordEnd
  /\ FileEnd > LastRecordEnd
  /\ OnDiskFields >= 1

====
